---- MODULE Spec2Model ----
(***************************************************************************)
(* CanonComparator: the rate-limited, cache-backed MusicBrainz client      *)
(* (canoncomparator/mb_client.py) driven by the loop of __main__.main.     *)
(*                                                                         *)
(* Time is an integer number of ticks (TicksPerSecond ticks per second);   *)
(* `now` is what time.time() returns.  A value of type Optional[T] is the  *)
(* empty sequence (None) or a one-element sequence.  A decimal string is   *)
(* the sequence of its digits.                                             *)
(***************************************************************************)
EXTENDS Integers, Sequences, FiniteSets, TLC

\* ------------------------------------------------------------------ bounds

\* Resolution of the clock.
TicksPerSecond == 2
\* Longest time, in ticks, one HTTP request takes (the code allows up to 60 s).
MaxReqDur == 1
\* Number of times the program is run against the same cache file.
MaxRuns == 2
\* Number of request attempts the remote service may fail.
MaxFaults == 1
\* Largest track count of a medium, most media of a release, most releases of
\* a page and most pages of a release group in the catalogs of SpecCatalog.
MaxTracks == 2
MaxMedia == 2
MaxReleases == 4
MaxPages == 3

\* --------------------------------------------------------------- constants

MB_MIN_INTERVAL == 1 * TicksPerSecond
max_retries == 5
SecondsPerDay == 86400
limit == 100
BackoffCap == 30

None == << >>
Some(x) == << x >>
IsNone(o) == o = << >>
Get(o) == o[1]

\* The release groups of the library, in the order fetch_library_items
\* returns them (distinct rgids: one LibraryItem per key of rgid_to_count).
Items == << "rg-A", "rg-B" >>
RGIDs == { Items[i] : i \in 1..Len(Items) }

\* --max-age-days / cache_max_age_days of a run.
MaxAgeChoices == { -1, 0, 1 }

\* time.time() when the first run starts (far from the epoch, where
\* _last_mb_request starts).
StartTime == 10 * TicksPerSecond

\* ----------------------------------------------------- the remote service

\* A medium of a release: "track-count" (an int or missing) and "tracks"
\* (a list, given by its length, or missing).
Medium(tc, tracks) == [ track_count |-> tc, tracks |-> tracks ]

\* A release object: "media" is a list of media, or missing (None).
Release(media) == [ media |-> media ]

Rel12 == Release(Some(<< Medium(Some(12), None) >>))
Rel8 == Release(Some(<< Medium(Some(3), None), Medium(Some(4), None), Medium(None, Some(1)) >>))
RelNoMedia == Release(Some(<< >>))
RelIndet == Release(Some(<< Medium(Some(5), None), Medium(None, None) >>))
RelZero == Release(Some(<< Medium(Some(0), None), Medium(None, Some(0)) >>))

\* The body of a response: a JSON document with its "releases" array and its
\* "release-count" (None: missing or not an integer), or a body r.json()
\* rejects.
Document(releases, total) == [ valid |-> TRUE, releases |-> releases, total |-> total ]
Malformed == [ valid |-> FALSE, releases |-> << >>, total |-> None ]

\* What the service holds for a release group: the pages it serves, in order.
OnePage == << Document(<< Rel12 >>, None) >>
NoTracks == << Document(<< RelNoMedia >>, Some(1)) >>
TwoPages == << Document(<< Rel12 >>, Some(150)), Document(<< Rel8, RelIndet >>, Some(150)) >>
\* The catalogs of a service holding one of them for each release group.
CatalogOf(first, second) == [ g \in RGIDs |-> IF g = Items[1] THEN first ELSE second ]
Catalogs == { CatalogOf(TwoPages, OnePage), CatalogOf(NoTracks, TwoPages),
              CatalogOf(OnePage, NoTracks) }

\* Catalogs for the first release group that vary what the service returns:
\* media with a track count, a track list, both or neither; releases with
\* media missing, empty or of up to MaxMedia media; pages of up to
\* MaxReleases releases of one medium each; and a constant release-count T
\* served over the pages it calls for.
SeqsUpTo(S, n) == UNION { [ 1..m -> S ] : m \in 0..n }
MediumChoices ==
    { Medium(Some(k), None) : k \in 0..MaxTracks }
    \cup { Medium(None, Some(n)) : n \in 0..MaxTracks }
    \cup { Medium(None, None), Medium(Some(MaxTracks), Some(0)) }
ReleaseChoices ==
    { Release(None) } \cup { Release(Some(ms)) : ms \in SeqsUpTo(MediumChoices, MaxMedia) }
SimpleReleases ==
    { Release(Some(<< Medium(Some(k), None) >>)) : k \in 0..MaxTracks } \cup { RelIndet }
Rel1 == Release(Some(<< Medium(Some(1), None) >>))
Totals ==
    { 0, 1, MaxPages * limit }
    \cup { k * limit : k \in 1..(MaxPages - 1) } \cup { k * limit + 1 : k \in 1..(MaxPages - 1) }
PagesNeeded(T) == IF T = 0 THEN 1 ELSE (T + limit - 1) \div limit
PagesFor(T) == [ i \in 1..PagesNeeded(T) |-> Document([ j \in 1..i |-> Rel12 ], Some(T)) ]
TotalMissing == << Document(<< Rel12 >>, None), Document(<< Rel8 >>, Some(150)) >>
ReleaseCatalogs == { CatalogOf(<< Document(<< Rel1, x >>, None) >>, OnePage) : x \in ReleaseChoices }
HistogramCatalogs ==
    { CatalogOf(<< Document(rs, None) >>, OnePage) : rs \in SeqsUpTo(SimpleReleases, MaxReleases) }
PagedCatalogs ==
    { CatalogOf(PagesFor(T), OnePage) : T \in Totals } \cup { CatalogOf(TotalMissing, OnePage) }

\* The page the service serves for rgid at an offset.
PageOf(cat, rg, off) ==
    IF off \div limit + 1 <= Len(cat[rg]) THEN cat[rg][off \div limit + 1]
    ELSE Document(<< >>, None)

\* Retry-After: absent, delay-seconds, or an HTTP-date (float() rejects it).
RetryAfterHeaders ==
    { [ kind |-> "absent", secs |-> 0 ],
      [ kind |-> "delay", secs |-> 0 ],
      [ kind |-> "delay", secs |-> 2 ],
      [ kind |-> "date", secs |-> 0 ] }
NoHeader == [ kind |-> "absent", secs |-> 0 ]

\* The statuses _mb_get retries, and the statuses a failing service answers
\* with: two of those, and two it does not retry.
RetryableStatuses == { 429, 500, 502, 503, 504 }
ServedRetryable == { 429, 503 }
ServedPermanent == { 404, 501 }

Response(status, ra, body) == [ status |-> status, retry_after |-> ra, body |-> body ]

\* The responses of a failing service.
FaultResponses ==
    { Response(200, NoHeader, Malformed) }
    \cup { Response(s, h, Malformed) : s \in ServedRetryable, h \in RetryAfterHeaders }
    \cup { Response(s, NoHeader, Malformed) : s \in ServedPermanent }

\* Exceptions session.get raises that _mb_get catches and retries, and one it
\* does not catch.
RetriedExceptions == { "ReadTimeout", "ConnectionError" }
OtherExceptions == { "TooManyRedirects" }

\* The time session.get takes, in ticks: none, or MaxReqDur.
ReqDurations == { 0, MaxReqDur }
\* random.uniform(0.0, 0.5), in ticks.
Jitters == 0..((TicksPerSecond - 1) \div 2)

\* ------------------------------------------------------------ pure functions

\* str(n) of a non-negative int: its decimal digits.
RECURSIVE Str(_)
Str(n) == IF n < 10 THEN << n >> ELSE Str(n \div 10) \o << n % 10 >>

\* int(s) of a string of decimal digits.
RECURSIVE ParseInt(_)
ParseInt(s) ==
    IF Len(s) = 1 THEN s[1]
    ELSE 10 * ParseInt(SubSeq(s, 1, Len(s) - 1)) + s[Len(s)]

\* json.dumps({str(k): v for k, v in histogram.items()}): the JSON object as
\* its set of (key string, value) members.
HistogramJson(histogram) == { << Str(k), histogram[k] >> : k \in DOMAIN histogram }

\* {int(k): int(v) for k, v in json.loads(histogram_json).items()}
HistogramOfJson(histogram_json) ==
    [ n \in { ParseInt(m[1]) : m \in histogram_json } |->
        (CHOOSE m \in histogram_json : ParseInt(m[1]) = n)[2] ]

\* A loop that passes over a medium with neither a count nor a list.
RECURSIVE SumMediaSkipUnknown(_, _, _)
SumMediaSkipUnknown(media, i, total) ==
    IF i > Len(media) THEN Some(total)
    ELSE LET m == media[i] IN
         IF ~IsNone(m.track_count)
         THEN SumMediaSkipUnknown(media, i + 1, total + Get(m.track_count))
         ELSE IF ~IsNone(m.tracks)
         THEN SumMediaSkipUnknown(media, i + 1, total + Get(m.tracks))
         ELSE SumMediaSkipUnknown(media, i + 1, total)

\* _release_total_tracks' loop over media, from medium i on.
RECURSIVE SumMedia(_, _, _)
SumMedia(media, i, total) ==
    IF i > Len(media) THEN Some(total)
    ELSE LET m == media[i] IN
         IF ~IsNone(m.track_count) THEN SumMedia(media, i + 1, total + Get(m.track_count))
         ELSE IF ~IsNone(m.tracks) THEN SumMedia(media, i + 1, total + Get(m.tracks))
         ELSE None

release_total_tracks(release_obj) ==
    IF IsNone(release_obj.media) \/ Get(release_obj.media) = << >> THEN None
    ELSE SumMedia(Get(release_obj.media), 1, 0)

\* hist.items(): the (key, value) pairs of a dict.
DictItems(h) == { << k, h[k] >> : k \in DOMAIN h }

\* A sort key whose tie-breaker prefers the largest track count.
SortKeyTieLargest(kv) == << 0 - kv[2], 0 - kv[1] >>

\* key=lambda kv: (-kv[1], kv[0]), and the order of two such tuples.
SortKey(kv) == << 0 - kv[2], kv[1] >>
TupleLess(a, b) == a[1] < b[1] \/ (a[1] = b[1] /\ a[2] < b[2])

\* sorted(items, key=SortKey): the pairs in ascending order of their keys.
RECURSIVE Sorted(_)
Sorted(items) ==
    IF items = {} THEN << >>
    ELSE LET first == CHOOSE kv \in items :
                        \A other \in items \ { kv } : TupleLess(SortKey(kv), SortKey(other))
         IN << first >> \o Sorted(items \ { first })

\* if not hist: return None
\* return sorted(hist.items(), key=lambda kv: (-kv[1], kv[0]))[0][0]
mode_from_hist(h) ==
    IF DOMAIN h = {} THEN None
    ELSE Some(Sorted(DictItems(h))[1][1])

\* hist[tc] = hist.get(tc, 0) + tc
HistAddTracks(h, tc) ==
    IF tc \in DOMAIN h THEN [ h EXCEPT ![tc] = @ + tc ] ELSE h @@ (tc :> tc)

\* hist[tc] = hist.get(tc, 0) + 1
HistAdd(h, tc) ==
    IF tc \in DOMAIN h THEN [ h EXCEPT ![tc] = @ + 1 ] ELSE h @@ (tc :> 1)

\* The loop over the releases of one page: <<release_count, hist>> after it.
RECURSIVE CountReleases(_, _, _, _)
CountReleases(releases, i, count, h) ==
    IF i > Len(releases) THEN << count, h >>
    ELSE LET tc == release_total_tracks(releases[i]) IN
         IF IsNone(tc) THEN CountReleases(releases, i + 1, count + 1, h)
         ELSE CountReleases(releases, i + 1, count + 1, HistAdd(h, Get(tc)))

MbRgStats(rgid, release_count, mode_track_count, histogram, fetched_at) ==
    [ rgid |-> rgid, release_count |-> release_count,
      mode_track_count |-> mode_track_count, histogram |-> histogram,
      fetched_at |-> fetched_at ]

\* A row whose fetched_at column keeps whole seconds only.
RowOfWholeSeconds(stats) ==
    [ rgid |-> stats.rgid,
      fetched_at |-> (stats.fetched_at \div TicksPerSecond) * TicksPerSecond,
      release_count |-> stats.release_count,
      mode_track_count |-> stats.mode_track_count,
      histogram_json |-> { << Str(k), stats.histogram[k] >> : k \in DOMAIN stats.histogram } ]

\* The row of rg_cache _write_cache binds for stats.
RowOf(stats) ==
    [ rgid |-> stats.rgid, fetched_at |-> stats.fetched_at,
      release_count |-> stats.release_count,
      mode_track_count |-> stats.mode_track_count,
      histogram_json |-> HistogramJson(stats.histogram) ]

\* DELETE FROM rg_cache before the INSERT: the new row is the only one left.
WriteCacheReplaceAll(table, stats) ==
    { [ rgid |-> stats.rgid, fetched_at |-> stats.fetched_at,
        release_count |-> stats.release_count,
        mode_track_count |-> stats.mode_track_count,
        histogram_json |-> { << Str(k), stats.histogram[k] >> : k \in DOMAIN stats.histogram } ] }

\* INSERT OR IGNORE: a row already there for the rgid is kept.
WriteCacheIgnore(table, stats) ==
    IF \E row \in table : row.rgid = stats.rgid THEN table
    ELSE table \cup { [ rgid |-> stats.rgid, fetched_at |-> stats.fetched_at,
                        release_count |-> stats.release_count,
                        mode_track_count |-> stats.mode_track_count,
                        histogram_json |-> { << Str(k), stats.histogram[k] >> :
                                               k \in DOMAIN stats.histogram } ] }

\* INSERT ... ON CONFLICT(rgid) DO UPDATE SET ...: the table after the upsert.
WriteCache(table, stats) ==
    { row \in table : row.rgid # stats.rgid } \cup { RowOf(stats) }

\* SELECT ... FROM rg_cache WHERE rgid=? ... fetchone(): a row or None.
SelectRow(table, rgid) ==
    IF \E row \in table : row.rgid = rgid
    THEN Some(CHOOSE row \in table : row.rgid = rgid)
    ELSE None

\* cached_stats built from the row read.
StatsOfRow(rgid, row) ==
    MbRgStats(rgid, row.release_count, row.mode_track_count,
              HistogramOfJson(row.histogram_json), row.fetched_at)

\* _read_cache(conn, rgid, max_age_days) called at time.time() = t: the helper
\* next to _write_cache, which fetch_rg_stats does not call (it has its own
\* SELECT).
read_cache(table, rgid, d, t) ==
    LET row == SelectRow(table, rgid)
    IN IF IsNone(row) THEN None
       ELSE IF d < 0 THEN Some(StatsOfRow(rgid, Get(row)))
       ELSE IF d = 0 THEN None
       ELSE IF (t - Get(row).fetched_at) > d * SecondsPerDay * TicksPerSecond THEN None
       ELSE Some(StatsOfRow(rgid, Get(row)))

\* Variants of the branch: a strict age comparison; max_age_days = 0 judged by
\* age like a positive one; a negative max_age_days that expires every row.
CacheDecisionStrict(d, t, fetched_at) ==
    IF d < 0 THEN "cached"
    ELSE IF d = 0 THEN "fetched (forced)"
    ELSE IF (t - fetched_at) < d * SecondsPerDay * TicksPerSecond THEN "cached"
    ELSE "fetched (cache expired)"

CacheDecisionZeroByAge(d, t, fetched_at) ==
    IF d < 0 THEN "cached"
    ELSE IF (t - fetched_at) <= d * SecondsPerDay * TicksPerSecond THEN "cached"
    ELSE IF d = 0 THEN "fetched (forced)"
    ELSE "fetched (cache expired)"

CacheDecisionNegativeByAge(d, t, fetched_at) ==
    IF d = 0 THEN "fetched (forced)"
    ELSE IF (t - fetched_at) <= d * SecondsPerDay * TicksPerSecond THEN "cached"
    ELSE "fetched (cache expired)"

\* The branch as it would be were the row read through _read_cache: a row
\* that is not to be used is taken for a missing one.
CacheDecisionAsMiss(d, t, fetched_at) ==
    IF d < 0 THEN "cached"
    ELSE IF d = 0 THEN "fetched (not in cache)"
    ELSE IF (t - fetched_at) <= d * SecondsPerDay * TicksPerSecond THEN "cached"
    ELSE "fetched (not in cache)"

\* The branch fetch_rg_stats takes for a row read at time t under max_age_days d.
CacheDecision(d, t, fetched_at) ==
    IF d < 0 THEN "cached"
    ELSE IF d = 0 THEN "fetched (forced)"
    ELSE IF (t - fetched_at) <= d * SecondsPerDay * TicksPerSecond THEN "cached"
    ELSE "fetched (cache expired)"

\* f"failed ({type(e).__name__})"
FailedStatus(e) ==
    CASE e = "HTTPError" -> "failed (HTTPError)"
      [] e = "JSONDecodeError" -> "failed (JSONDecodeError)"
      [] e = "ReadTimeout" -> "failed (ReadTimeout)"
      [] e = "ConnectionError" -> "failed (ConnectionError)"
      [] e = "TooManyRedirects" -> "failed (TooManyRedirects)"
      [] e = "OperationalError" -> "failed (OperationalError)"

FailedStatuses ==
    { FailedStatus(e) : e \in { "HTTPError", "JSONDecodeError", "OperationalError" }
                              \cup RetriedExceptions \cup OtherExceptions }

\* Without the except clause the exception leaves fetch_rg_stats and main.
FetchExceptPropagate(e) == [ pc |-> "crashed", result |-> None ]

\* except Exception as e: return None, f"failed (...)" -- where control goes
\* and what fetch_rg_stats returns when e is raised inside its inner try.
FetchExcept(e) == [ pc |-> "returned", result |-> << None, FailedStatus(e) >> ]

\* Every error status taken for a retryable one.
IsRetryableAnyError(status) == status >= 400

\* if offset > total: break
LastPageStrict(next_offset, total) == next_offset > total

\* offset += limit; if offset >= total: break -- whether the page just
\* counted was the last, next_offset being the offset after it.
LastPage(next_offset, total) == next_offset >= total

\* r.status_code in (429, 500, 502, 503, 504)
IsRetryable(status) == status \in RetryableStatuses

\* A loop that goes round once more.
AttemptsRemainLong(a) == a <= max_retries

\* A loop that gives up one attempt early.
AttemptsRemainShort(a) == a < max_retries - 1

\* attempt < max_retries
AttemptsRemain(a) == a < max_retries

\* max for min: the cap taken for a floor.
BackoffFloor(a, j) ==
    (IF BackoffCap > 2 ^ a THEN BackoffCap ELSE 2 ^ a) * TicksPerSecond + j

\* min(30.0, 2 ** attempt) + random.uniform(0.0, 0.5), in ticks, jitter j.
Min(a, b) == IF a < b THEN a ELSE b
Backoff(a, j) == Min(BackoffCap, 2 ^ a) * TicksPerSecond + j

\* A sleep that passes over the Retry-After header.
RetrySleepNoHeader(ra, a, j) == (IF 30 < 2 ^ a THEN 30 ELSE 2 ^ a) * TicksPerSecond + j

\* sleep_s of a retryable response, in ticks.
RetrySleep(ra, a, j) ==
    IF ra.kind = "delay" THEN ra.secs * TicksPerSecond
    ELSE IF ra.kind = "date" THEN 1 * TicksPerSecond
    ELSE Backoff(a, j)

\* -------------------------------------------------------------------- state

VARIABLES
    now,              \* time.time()
    last_mb_request,  \* _last_mb_request
    rg_cache,         \* the rows of table rg_cache in the cache file
    pc,               \* where the process is
    run,              \* which run of the program this is
    max_age_days,     \* main's max_age_days
    idx,              \* main's loop index i over items
    mb_stats,         \* main's mb_stats
    printed,          \* the <<rgid, status>> of the status lines main printed
    result,           \* what fetch_rg_stats returned: None or <<stats, status>>
    fetch_reason, offset, hist, release_count,   \* locals of fetch_rg_stats
    attempt, r, exc,                             \* locals of _mb_get
    faults_left,      \* failed attempts the service may still serve
    catalog,          \* what the service holds for each release group
    h_start,          \* start of the latest request attempt of this process
    h_gap,            \* "none", or whether the latest attempt started at least
                      \* MB_MIN_INTERVAL after the start of the one before: "ok", "short"
    h_attempts,       \* request attempts of the current _mb_get call
    h_sleeps,         \* backoff sleeps of the current _mb_get call
    h_only503,        \* every response of the current _mb_get call was a 503
    h_last,           \* status of its latest response (0: none yet, or an exception)
    h_mb,             \* current _mb_get call: "running", "returned" or "raised"
    h_kinds,          \* what its attempts so far ended in: "status", "network"
    h_slept,          \* the retry sleep since its latest attempt, if any, and
                      \* time.time() when that attempt was over and the sleep began
    h_requests,       \* request attempts of the current fetch_rg_stats call
    h_pages,          \* pages _mb_get has returned to it
    h_row,            \* the row the current fetch_rg_stats call read
    h_read_at,        \* time.time() when it judged the row's age
    h_cache0,         \* rg_cache when the current fetch_rg_stats call began
    h_raised,         \* the exception raised inside the current call, and where
    h_fetched,        \* per rgid, the stats its latest successful fetch returned
    h_work            \* the release groups this run read the cache, made a request
                      \* or wrote the cache for, in the order it turned to them

prog_vars == << now, last_mb_request, rg_cache, pc, run, max_age_days, idx,
                mb_stats, printed, result, fetch_reason, offset, hist, release_count,
                attempt, r, exc, faults_left, catalog >>
hist_vars == << h_start, h_gap, h_attempts, h_sleeps, h_only503, h_last, h_mb,
                h_kinds, h_slept,
                h_requests, h_pages, h_row, h_read_at, h_cache0, h_raised, h_fetched,
                h_work >>
vars == << prog_vars, hist_vars >>

mb_vars == << attempt, r, exc >>
fetch_vars == << fetch_reason, offset, hist, release_count >>
main_vars == << run, max_age_days, idx, mb_stats, printed >>
call_hist == << h_attempts, h_sleeps, h_only503, h_last, h_mb, h_kinds, h_slept >>
fetch_hist == << h_requests, h_pages, h_row, h_read_at, h_cache0, h_raised >>

\* A loop that passes the first item's rgid every time round.
rgidOfFirst == Items[1]

\* The rgid main passes to fetch_rg_stats.
rgid == Items[idx]

\* The release group fetch_rg_stats is at work for, noted in the order of
\* work: g is added unless it is the one the latest work was for.
NoteWork(w, g) ==
    IF Len(w) > 0 /\ w[Len(w)] = g THEN w ELSE Append(w, g)

\* The state when the program starts for the first time; the remote service
\* may fail `budget` request attempts, and the program is still run
\* MaxRuns - first_run times after this run.
InitWith(first_run, budget, catalogs, policies) ==
    /\ now = StartTime
    /\ last_mb_request = 0
    /\ rg_cache = {}
    /\ pc = "main"
    /\ run = first_run
    /\ max_age_days \in policies
    /\ idx = 1
    /\ mb_stats = << >> /\ printed = << >>
    /\ result = None
    /\ fetch_reason = "" /\ offset = 0 /\ hist = << >> /\ release_count = 0
    /\ attempt = 0 /\ r = None /\ exc = None
    /\ faults_left = budget
    /\ catalog \in catalogs
    /\ h_start = None /\ h_gap = "none"
    /\ h_attempts = 0 /\ h_sleeps = 0 /\ h_only503 = TRUE /\ h_last = 0
    /\ h_mb = "idle" /\ h_kinds = {} /\ h_slept = None
    /\ h_requests = 0 /\ h_pages = 0 /\ h_row = None /\ h_read_at = 0 /\ h_cache0 = {}
    /\ h_raised = None
    /\ h_fetched = << >>
    /\ h_work = << >>

\* One run of the program (the last one), against a service that may fail
\* as many attempts as one _mb_get call makes.
InitTransport ==
    InitWith(MaxRuns, max_retries + 1, { CatalogOf(OnePage, OnePage) }, { 0 })

\* MaxRuns runs against a service that may fail MaxFaults attempts in all,
\* or the one run of InitTransport.
Init == InitWith(1, MaxFaults, Catalogs, MaxAgeChoices) \/ InitTransport

\* ------------------------------------------------------------------- main

\* for i, it in enumerate(items, start=1): stats, status = fetch_rg_stats(...)
\* up to sqlite3.connect.
MainCall ==
    /\ pc = "main" /\ idx <= Len(Items)
    /\ pc' = "ensure"
    /\ result' = None
    /\ h_requests' = 0 /\ h_pages' = 0 /\ h_row' = None /\ h_read_at' = now
    /\ h_cache0' = rg_cache /\ h_raised' = None
    /\ h_attempts' = 0 /\ h_sleeps' = 0 /\ h_only503' = TRUE /\ h_last' = 0
    /\ h_mb' = "idle" /\ h_kinds' = {} /\ h_slept' = None
    /\ UNCHANGED << now, last_mb_request, rg_cache, main_vars, fetch_vars,
                    mb_vars, faults_left, catalog, h_start, h_gap, h_fetched, h_work >>

\* The loop is over: build_rows and the CSV follow.
MainDone ==
    /\ pc = "main" /\ idx > Len(Items)
    /\ pc' = "done"
    /\ UNCHANGED << now, last_mb_request, rg_cache, main_vars, result,
                    fetch_vars, mb_vars, faults_left, catalog, hist_vars >>

\* print(f"[{i}/{total}] MB {status}: ..."); mb_stats[it.rgid] = stats
MainStore ==
    /\ pc = "returned"
    /\ printed' = Append(printed, << rgid, result[2] >>)
    /\ mb_stats' = (rgid :> result[1]) @@ mb_stats
    /\ idx' = idx + 1
    /\ pc' = "main"
    /\ UNCHANGED << now, last_mb_request, rg_cache, run, max_age_days, result,
                    fetch_vars, mb_vars, faults_left, catalog, hist_vars >>

\* The program is run again later, against the same cache file.
RestartTimes ==
    { now }
    \cup { row.fetched_at + d * SecondsPerDay * TicksPerSecond + e :
             row \in rg_cache, d \in { x \in MaxAgeChoices : x > 0 }, e \in { 0, 1 } }

Restart ==
    /\ pc \in { "done", "crashed" } /\ run < MaxRuns
    /\ run' = run + 1
    /\ \E t \in RestartTimes : t >= now /\ now' = t
    /\ max_age_days' \in MaxAgeChoices
    /\ last_mb_request' = 0
    /\ idx' = 1 /\ mb_stats' = << >> /\ printed' = << >> /\ result' = None
    /\ pc' = "main"
    /\ h_start' = None /\ h_gap' = "none" /\ h_work' = << >>
    /\ UNCHANGED << rg_cache, fetch_vars, mb_vars, faults_left, catalog, call_hist,
                    fetch_hist, h_fetched >>

\* --------------------------------------------------------- fetch_rg_stats

\* _ensure_cache(conn): CREATE TABLE IF NOT EXISTS; commit.
EnsureCache ==
    /\ pc = "ensure"
    /\ pc' = "read"
    /\ UNCHANGED << now, last_mb_request, rg_cache, main_vars, result,
                    fetch_vars, mb_vars, faults_left, catalog, hist_vars >>

\* sqlite3 raises in _ensure_cache: nothing catches it, the run ends.
EnsureCacheFault ==
    /\ pc = "ensure"
    /\ pc' = "crashed"
    /\ h_raised' = Some(<< "OperationalError", "ensure" >>)
    /\ UNCHANGED << now, last_mb_request, rg_cache, main_vars, result,
                    fetch_vars, mb_vars, faults_left, catalog, h_start, h_gap, call_hist,
                    h_requests, h_pages, h_row, h_read_at, h_cache0, h_fetched, h_work >>

\* The SELECT and the branch on the row read.
ReadCache ==
    /\ pc = "read"
    /\ LET row == SelectRow(rg_cache, rgid)
           decision == IF IsNone(row) THEN "fetched (not in cache)"
                       ELSE CacheDecision(max_age_days, now, Get(row).fetched_at)
       IN /\ h_row' = row /\ h_read_at' = now
          /\ IF decision = "cached"
             THEN /\ result' = << Some(StatsOfRow(rgid, Get(row))), "cached" >>
                  /\ pc' = "returned"
                  /\ UNCHANGED fetch_vars
             ELSE /\ fetch_reason' = decision
                  /\ offset' = 0 /\ hist' = << >> /\ release_count' = 0
                  /\ pc' = "mb_call"
                  /\ UNCHANGED result
    /\ UNCHANGED << now, last_mb_request, rg_cache, main_vars, mb_vars, faults_left, catalog,
                    h_start, h_gap, call_hist, h_requests, h_pages, h_cache0, h_raised,
                    h_fetched >>
    /\ h_work' = NoteWork(h_work, rgid)

\* sqlite3 raises in the SELECT: nothing catches it, the run ends.
ReadCacheFault ==
    /\ pc = "read"
    /\ pc' = "crashed"
    /\ h_raised' = Some(<< "OperationalError", "read" >>)
    /\ UNCHANGED << now, last_mb_request, rg_cache, main_vars, result,
                    fetch_vars, mb_vars, faults_left, catalog, h_start, h_gap, call_hist,
                    h_requests, h_pages, h_row, h_read_at, h_cache0, h_fetched >>
    /\ h_work' = NoteWork(h_work, rgid)

\* fetch_rg_stats returns: its locals and those of _mb_get are gone.
DropLocals ==
    /\ fetch_reason' = "" /\ offset' = 0 /\ hist' = << >> /\ release_count' = 0
    /\ attempt' = 0 /\ r' = None /\ exc' = None

\* An exception e raised inside fetch_rg_stats' inner try, in operation op.
RaiseInFetch(e, op) ==
    /\ pc' = FetchExcept(e).pc
    /\ result' = FetchExcept(e).result
    /\ h_raised' = Some(<< e, op >>)
    /\ DropLocals

\* ---------------------------------------------------------------- _mb_get

\* data = _mb_get(session, "/release", params=...): max_retries = 5,
\* last_exc = None, attempt = 0.
MbCall ==
    /\ pc = "mb_call"
    /\ attempt' = 0 /\ r' = None /\ exc' = None
    /\ pc' = "mb_throttle"
    /\ h_attempts' = 0 /\ h_sleeps' = 0 /\ h_only503' = TRUE /\ h_last' = 0
    /\ h_mb' = "running" /\ h_kinds' = {} /\ h_slept' = None
    /\ UNCHANGED << now, last_mb_request, rg_cache, main_vars, result,
                    fetch_vars, faults_left, catalog, h_start, h_gap, fetch_hist, h_fetched, h_work >>

\* A retry loop whose attempts do not pass through the throttle.
ThrottleSleepNone(t, last) == 0

\* now = time.time(); dt = now - _last_mb_request;
\* if dt < _MB_MIN_INTERVAL: time.sleep(_MB_MIN_INTERVAL - dt)
ThrottleSleep(t, last) ==
    IF t - last < MB_MIN_INTERVAL THEN MB_MIN_INTERVAL - (t - last) ELSE 0

MbThrottle ==
    /\ pc = "mb_throttle"
    /\ now' = now + ThrottleSleep(now, last_mb_request)
    /\ pc' = "mb_send"
    /\ UNCHANGED << last_mb_request, rg_cache, main_vars, result, fetch_vars,
                    mb_vars, faults_left, catalog, hist_vars >>

\* What every request attempt records, whatever comes of it.
NoteAttempt(status) ==
    /\ h_start' = Some(now)
    /\ h_gap' = IF IsNone(h_start) THEN "none"
                ELSE IF now - Get(h_start) >= MB_MIN_INTERVAL THEN "ok" ELSE "short"
    /\ h_attempts' = h_attempts + 1
    /\ h_requests' = h_requests + 1
    /\ h_only503' = (h_only503 /\ status = 503)
    /\ h_last' = status
    /\ h_kinds' = h_kinds \cup (IF status = 0 THEN { "network" }
                                ELSE IF status >= 400 THEN { "status" } ELSE {})
    /\ h_slept' = None
    /\ h_work' = NoteWork(h_work, rgid)

\* r = session.get(url, params=params, timeout=60) returns a response;
\* _last_mb_request = time.time()
MbGetResponse ==
    /\ pc = "mb_send"
    /\ \E d \in ReqDurations :
       \E resp \in { Response(200, NoHeader, PageOf(catalog, rgid, offset)) }
                    \cup IF faults_left > 0 THEN FaultResponses ELSE {} :
          /\ faults_left' = IF resp \in FaultResponses THEN faults_left - 1 ELSE faults_left
          /\ now' = now + d
          /\ r' = Some(resp)
          /\ last_mb_request' = now + d
          /\ NoteAttempt(resp.status)
    /\ pc' = "mb_status"
    /\ UNCHANGED << rg_cache, catalog, main_vars, result, fetch_vars, attempt, exc,
                    h_sleeps, h_mb, h_pages, h_row, h_read_at, h_cache0, h_raised,
                    h_fetched >>

\* session.get raises one of the exceptions _mb_get catches: the assignment
\* to _last_mb_request is skipped.
MbGetRetriedException ==
    /\ pc = "mb_send"
    /\ faults_left > 0 /\ faults_left' = faults_left - 1
    /\ \E d \in ReqDurations : now' = now + d
    /\ \E e \in RetriedExceptions : exc' = Some(e)
    /\ pc' = "mb_except"
    /\ NoteAttempt(0)
    /\ UNCHANGED << last_mb_request, rg_cache, catalog, main_vars, result, fetch_vars,
                    attempt, r, h_sleeps, h_mb, h_pages, h_row, h_read_at, h_cache0,
                    h_raised, h_fetched >>

\* session.get raises an exception _mb_get does not catch: it leaves _mb_get
\* and reaches fetch_rg_stats' except.
MbGetOtherException ==
    /\ pc = "mb_send"
    /\ faults_left > 0 /\ faults_left' = faults_left - 1
    /\ \E d \in ReqDurations : now' = now + d
    /\ \E e \in OtherExceptions : RaiseInFetch(e, "mb_get")
    /\ h_mb' = "raised"
    /\ NoteAttempt(0)
    /\ UNCHANGED << last_mb_request, rg_cache, catalog, main_vars, h_sleeps, h_pages, h_row,
                    h_read_at, h_cache0, h_fetched >>

\* A retryable status with attempts left: sleep sleep_s, continue.
MbRetryStatus ==
    /\ pc = "mb_status"
    /\ IsRetryable(Get(r).status) /\ AttemptsRemain(attempt)
    /\ \E j \in Jitters :
          now' = now + RetrySleep(Get(r).retry_after, attempt,
                                  IF Get(r).retry_after.kind = "absent" THEN j ELSE 0)
    /\ attempt' = attempt + 1
    /\ r' = None
    /\ pc' = "mb_throttle"
    /\ h_sleeps' = h_sleeps + 1
    /\ h_slept' = Some([ since |-> now, after |-> "status", retry_after |-> Get(r).retry_after,
                         attempt |-> attempt, slept |-> now' - now ])
    /\ UNCHANGED << last_mb_request, rg_cache, main_vars, result, fetch_vars,
                    exc, faults_left, catalog, h_start, h_gap, h_attempts, h_only503,
                    h_last, h_mb, h_kinds, fetch_hist, h_fetched, h_work >>

\* r.raise_for_status() raises HTTPError for a 4xx or 5xx status.
MbRaiseForStatus ==
    /\ pc = "mb_status"
    /\ ~(IsRetryable(Get(r).status) /\ AttemptsRemain(attempt))
    /\ Get(r).status >= 400
    /\ RaiseInFetch("HTTPError", "mb_get")
    /\ h_mb' = "raised"
    /\ UNCHANGED << now, last_mb_request, rg_cache, main_vars, faults_left, catalog,
                    h_start, h_gap, h_attempts, h_sleeps, h_only503, h_last, h_kinds, h_slept,
                    h_requests, h_pages, h_row, h_read_at, h_cache0, h_fetched, h_work >>

\* return r.json() raises on a body that is not JSON.
MbJsonError ==
    /\ pc = "mb_status"
    /\ ~(IsRetryable(Get(r).status) /\ AttemptsRemain(attempt))
    /\ Get(r).status < 400
    /\ ~Get(r).body.valid
    /\ RaiseInFetch("JSONDecodeError", "mb_get")
    /\ h_mb' = "raised"
    /\ UNCHANGED << now, last_mb_request, rg_cache, main_vars, faults_left, catalog,
                    h_start, h_gap, h_attempts, h_sleeps, h_only503, h_last, h_kinds, h_slept,
                    h_requests, h_pages, h_row, h_read_at, h_cache0, h_fetched, h_work >>

\* return r.json(), and the body of fetch_rg_stats' while loop on that page.
MbReturnPage ==
    /\ pc = "mb_status"
    /\ ~(IsRetryable(Get(r).status) /\ AttemptsRemain(attempt))
    /\ Get(r).status < 400
    /\ Get(r).body.valid
    /\ LET data == Get(r).body
           counted == CountReleases(data.releases, 1, release_count, hist)
       IN /\ release_count' = counted[1]
          /\ hist' = counted[2]
          /\ IF IsNone(data.total)
             THEN /\ offset' = offset /\ pc' = "build"
             ELSE /\ offset' = offset + limit
                  /\ pc' = IF LastPage(offset + limit, Get(data.total)) THEN "build"
                           ELSE "mb_call"
    /\ h_pages' = h_pages + 1
    /\ attempt' = 0 /\ r' = None /\ exc' = None
    /\ h_mb' = "returned"
    /\ UNCHANGED << now, last_mb_request, rg_cache, main_vars, result,
                    fetch_reason, faults_left, catalog, h_start, h_gap, h_attempts,
                    h_sleeps, h_only503, h_last, h_kinds, h_slept, h_requests, h_row,
                    h_read_at, h_cache0, h_raised, h_fetched, h_work >>

\* A caught exception with attempts left: sleep the backoff, continue.
MbRetryException ==
    /\ pc = "mb_except"
    /\ AttemptsRemain(attempt)
    /\ \E j \in Jitters : now' = now + Backoff(attempt, j)
    /\ attempt' = attempt + 1
    /\ exc' = None
    /\ pc' = "mb_throttle"
    /\ h_sleeps' = h_sleeps + 1
    /\ h_slept' = Some([ since |-> now, after |-> "network", retry_after |-> NoHeader,
                         attempt |-> attempt, slept |-> now' - now ])
    /\ UNCHANGED << last_mb_request, rg_cache, main_vars, result, fetch_vars,
                    r, faults_left, catalog, h_start, h_gap, h_attempts, h_only503,
                    h_last, h_mb, h_kinds, fetch_hist, h_fetched, h_work >>

\* A caught exception on the last attempt: raise.
MbRaiseException ==
    /\ pc = "mb_except"
    /\ ~AttemptsRemain(attempt)
    /\ RaiseInFetch(Get(exc), "mb_get")
    /\ h_mb' = "raised"
    /\ UNCHANGED << now, last_mb_request, rg_cache, main_vars, faults_left, catalog,
                    h_start, h_gap, h_attempts, h_sleeps, h_only503, h_last, h_kinds, h_slept,
                    h_requests, h_pages, h_row, h_read_at, h_cache0, h_fetched, h_work >>

\* ------------------------------------------- fetch_rg_stats, after the loop

\* stats = MbRgStats(..., fetched_at=time.time())
BuiltStats ==
    MbRgStats(rgid, release_count, mode_from_hist(hist), hist, now)

\* _write_cache(conn, stats); return stats, fetch_reason
WriteAndReturn ==
    /\ pc = "build"
    /\ rg_cache' = WriteCache(rg_cache, BuiltStats)
    /\ result' = << Some(BuiltStats), fetch_reason >>
    /\ h_fetched' = (rgid :> BuiltStats) @@ h_fetched
    /\ h_work' = NoteWork(h_work, rgid)
    /\ pc' = "returned"
    /\ DropLocals
    /\ UNCHANGED << now, last_mb_request, main_vars, faults_left, catalog, h_start,
                    h_gap, call_hist, fetch_hist >>

\* sqlite3 raises in _write_cache, which is inside the inner try: the
\* except Exception of fetch_rg_stats catches it; the row is not written.
WriteCacheFault ==
    /\ pc = "build"
    /\ RaiseInFetch("OperationalError", "write")
    /\ UNCHANGED << now, last_mb_request, rg_cache, main_vars, faults_left, catalog,
                    h_start, h_gap, call_hist, h_requests, h_pages, h_row, h_read_at,
                    h_cache0, h_fetched >>
    /\ h_work' = NoteWork(h_work, rgid)

\* ---------------------------------------------------------- specification

Next ==
    \/ MainCall \/ MainDone \/ MainStore \/ Restart
    \/ EnsureCache \/ EnsureCacheFault \/ ReadCache \/ ReadCacheFault
    \/ MbCall \/ MbThrottle
    \/ MbGetResponse \/ MbGetRetriedException \/ MbGetOtherException
    \/ MbRetryStatus \/ MbRaiseForStatus \/ MbJsonError \/ MbReturnPage
    \/ MbRetryException \/ MbRaiseException
    \/ WriteAndReturn \/ WriteCacheFault

Spec == Init /\ [][Next]_vars

\* One run of the program, against a service that may fail as many attempts
\* as one _mb_get call makes.
NextTransport ==
    \/ MainCall \/ MainDone \/ MainStore
    \/ EnsureCache \/ EnsureCacheFault \/ ReadCache \/ ReadCacheFault
    \/ MbCall \/ MbThrottle
    \/ MbGetResponse \/ MbGetRetriedException \/ MbGetOtherException
    \/ MbRetryStatus \/ MbRaiseForStatus \/ MbJsonError \/ MbReturnPage
    \/ MbRetryException \/ MbRaiseException
    \/ WriteAndReturn \/ WriteCacheFault

SpecTransport == InitTransport /\ [][NextTransport]_vars

\* One run of the program (the last one) against a service and a cache that
\* do not fail, over the catalogs that vary the releases and the pages.
InitCatalog ==
    InitWith(MaxRuns, 0, ReleaseCatalogs \cup HistogramCatalogs \cup PagedCatalogs, { 0 })

NextCatalog ==
    \/ MainCall \/ MainDone \/ MainStore
    \/ EnsureCache \/ ReadCache
    \/ MbCall \/ MbThrottle \/ MbGetResponse \/ MbReturnPage
    \/ WriteAndReturn

SpecCatalog == InitCatalog /\ [][NextCatalog]_vars

\* ------------------------------------------------------------- properties

\* C1: a call of _mb_get that is answered 503 on every attempt makes exactly
\* max_retries + 1 = 6 request attempts and then raises (fetch_rg_stats
\* reports the HTTPError); while fewer attempts were made it is still
\* running, it never returns a document, and no call makes a 7th attempt.
C1_RetryBound ==
    /\ h_attempts <= max_retries + 1
    /\ (h_only503 /\ h_attempts >= 1) =>
          /\ h_mb \in { "running", "raised" }
          /\ h_attempts < max_retries + 1 => h_mb = "running"
          /\ h_mb = "raised" =>
                /\ h_attempts = max_retries + 1
                /\ h_sleeps = max_retries
                /\ pc = "returned" => result = << None, "failed (HTTPError)" >>

\* A call that was answered 503 six times and has raised.
C1_Witness ==
    /\ h_only503 /\ h_attempts = max_retries + 1 /\ h_mb = "raised"
    /\ pc = "returned"

\* C2: every request attempt of the process starts at least MB_MIN_INTERVAL
\* after the start of the attempt before it, whatever came of that one.
C2_MinInterval == h_gap # "short"

\* The age fetch_rg_stats judged the row it read to have, and the age limit
\* of a positive max_age_days, in ticks.
Age == h_read_at - Get(h_row).fetched_at
MaxAge == max_age_days * SecondsPerDay * TicksPerSecond

\* C3: when fetch_rg_stats with max_age_days > 0 has read a row for rgid and
\* returns: if the row's age is at most max_age_days * 86400 seconds it
\* returns the stats of that row with status "cached" and made no request;
\* otherwise it made a request and, if it returns stats, they are the newly
\* fetched ones with status "fetched (cache expired)".
C3_FreshnessLaw ==
    (pc = "returned" /\ max_age_days > 0 /\ ~IsNone(h_row)) =>
        IF Age <= MaxAge
        THEN /\ result = << Some(StatsOfRow(rgid, Get(h_row))), "cached" >>
             /\ h_requests = 0
        ELSE /\ h_requests >= 1
             /\ result[2] # "cached"
             /\ ~IsNone(result[1]) =>
                   /\ result[2] = "fetched (cache expired)"
                   /\ Get(result[1]) = h_fetched[rgid]
                   /\ Get(result[1]).fetched_at >= h_read_at
                   /\ Get(result[1]).fetched_at > Get(h_row).fetched_at

\* A row exactly max_age_days old was returned as cached.
C3_Witness ==
    /\ pc = "returned" /\ max_age_days > 0 /\ ~IsNone(h_row)
    /\ Age = MaxAge /\ result[2] = "cached"

\* C4: a call of fetch_rg_stats with max_age_days = 0 that returns made at
\* least one request, row or no row, even when the row was written at this
\* very time; its status is never "cached", and when a row was read and
\* stats are returned the status is "fetched (forced)" and the stats are the
\* newly fetched ones.
C4_ForcedFetch ==
    (pc = "returned" /\ max_age_days = 0) =>
        /\ h_requests >= 1
        /\ result[2] # "cached"
        /\ (~IsNone(h_row) /\ ~IsNone(result[1])) =>
              /\ result[2] = "fetched (forced)"
              /\ Get(result[1]) = h_fetched[rgid]
              /\ Get(result[1]).fetched_at >= h_read_at

\* A forced fetch of a row that was written at the time of the call.
C4_Witness ==
    /\ pc = "returned" /\ max_age_days = 0 /\ ~IsNone(h_row)
    /\ Age = 0 /\ result[2] = "fetched (forced)" /\ h_requests >= 1

\* C5: a call of fetch_rg_stats with max_age_days < 0 that read a row for
\* rgid returns the stats of that row with status "cached", whatever the
\* row's age, makes no request and leaves the cache as it was.
C5_NeverExpires ==
    (pc = "returned" /\ max_age_days < 0 /\ ~IsNone(h_row)) =>
        /\ result = << Some(StatsOfRow(rgid, Get(h_row))), "cached" >>
        /\ h_requests = 0
        /\ rg_cache = h_cache0

\* A row more than a day old was returned as cached.
C5_Witness ==
    /\ pc = "returned" /\ max_age_days < 0 /\ ~IsNone(h_row)
    /\ Age > SecondsPerDay * TicksPerSecond /\ result[2] = "cached"

\* C6: an exception raised while fetching from the service (attempts
\* exhausted, an error status, a network fault, a body that is not JSON) does
\* not leave fetch_rg_stats: the call returns (None, "failed (<name>)"), and
\* main goes on through the items in order, so that a run that is done has
\* printed a status and stored an entry for every item.  Only a fault of the
\* cache before the fetch ends a run early.
C6_RemoteFaultContained ==
    /\ (~IsNone(h_raised) /\ Get(h_raised)[2] = "mb_get") =>
          /\ pc \in { "returned", "main", "done" }
          /\ pc = "returned" =>
                result = << None, FailedStatus(Get(h_raised)[1]) >>
    /\ pc = "crashed" =>
          (~IsNone(h_raised) /\ Get(h_raised)[2] \in { "ensure", "read" })
    /\ \A i \in 1..Len(printed) : printed[i][1] = Items[i]
    /\ pc = "main" => Len(printed) = idx - 1
    /\ pc = "done" => (Len(printed) = Len(Items) /\ DOMAIN mb_stats = RGIDs)

\* The fetch of the first item failed on exhausted attempts, and the run went
\* on to fetch the second.
C6_Witness ==
    /\ pc = "done"
    /\ printed = << << Items[1], "failed (ReadTimeout)" >>,
                    << Items[2], "fetched (not in cache)" >> >>
    /\ IsNone(mb_stats[Items[1]]) /\ ~IsNone(mb_stats[Items[2]])

\* C7: when fetch_rg_stats has read a row and max_age_days accepts its age
\* (negative, or positive and at least the age), the call returns, with
\* status "cached" and without any request, stats equal in every field to
\* the stats the latest successful fetch of rgid returned.
C7_CacheRoundTrip ==
    ( /\ pc = "returned" /\ ~IsNone(h_row)
      /\ (max_age_days < 0 \/ (max_age_days > 0 /\ Age <= MaxAge)) ) =>
        /\ rgid \in DOMAIN h_fetched
        /\ result = << Some(h_fetched[rgid]), "cached" >>
        /\ h_requests = 0

\* Stats with a histogram of two keys, one of two digits, fetched at a time
\* that is not a whole second, came back from the cache.
C7_Witness ==
    /\ pc = "returned" /\ result[2] = "cached" /\ h_requests = 0
    /\ DOMAIN Get(result[1]).histogram = { 8, 12 }
    /\ Get(result[1]).fetched_at % TicksPerSecond # 0
    /\ Get(result[1]) = h_fetched[rgid]

\* C8: rg_cache holds at most one row for an rgid, and that row is the one of
\* the stats last written for it; a call of fetch_rg_stats leaves the rows
\* of the other rgids as they were; writing the stats last written once more
\* leaves the table as it is.
C8_Upsert ==
    /\ \A r1, r2 \in rg_cache : r1.rgid = r2.rgid => r1 = r2
    /\ \A g \in DOMAIN h_fetched :
          /\ RowOf(h_fetched[g]) \in rg_cache
          /\ WriteCache(rg_cache, h_fetched[g]) = rg_cache
    /\ pc = "returned" =>
          { row \in rg_cache : row.rgid # rgid } = { row \in h_cache0 : row.rgid # rgid }

\* A fetch replaced the row of one rgid, with different content, next to the
\* row of another.
C8_Witness ==
    /\ pc = "returned" /\ ~IsNone(h_row) /\ ~IsNone(result[1])
    /\ result[2] \in { "fetched (forced)", "fetched (cache expired)" }
    /\ RowOf(Get(result[1])) # Get(h_row)
    /\ RowOf(Get(result[1])) \in rg_cache
    /\ Cardinality(rg_cache) = Len(Items)

\* C9: an exception raised by a cache operation of fetch_rg_stats (creating
\* the table, the SELECT, or the upsert after the fetch) leaves
\* fetch_rg_stats: a call in which one was raised does not return.
C9_CacheFaultFatal ==
    (~IsNone(h_raised) /\ Get(h_raised)[2] \in { "ensure", "read", "write" }) =>
        pc # "returned"

\* C10: when the first response of a call of _mb_get has a 4xx status other
\* than 429, the call raises at once: fetch_rg_stats returns the HTTPError as
\* a failure with that one request attempt made, no sleep, no time passed.
C10_NoRetryOn4xx ==
    [][ ( /\ pc = "mb_status" /\ h_attempts = 1
          /\ Get(r).status \in (400..499) \ { 429 } ) =>
        ( /\ pc' = "returned"
          /\ result' = << None, "failed (HTTPError)" >>
          /\ h_mb' = "raised"
          /\ h_attempts' = 1 /\ h_sleeps' = 0 /\ h_requests' = h_requests
          /\ now' = now ) ]_vars

\* A call answered 404 has raised after its one attempt.
C10_Witness ==
    /\ pc = "returned" /\ h_mb = "raised" /\ h_last = 404
    /\ h_attempts = 1 /\ h_sleeps = 0
    /\ result = << None, "failed (HTTPError)" >>

\* The stats a call of fetch_rg_stats has returned, when it returned some.
ReturnedStats == pc = "returned" /\ ~IsNone(result[1])
TheStats == Get(result[1])

\* C11: the mode of a histogram is absent when the histogram is empty;
\* otherwise it is a key of the histogram, no key has a greater frequency,
\* and no smaller key has the same frequency.
C11_Mode ==
    ReturnedStats =>
        LET H == TheStats.histogram
            m == TheStats.mode_track_count
        IN IF DOMAIN H = {} THEN IsNone(m)
           ELSE /\ ~IsNone(m) /\ Get(m) \in DOMAIN H
                /\ \A k \in DOMAIN H :
                      /\ H[k] <= H[Get(m)]
                      /\ H[k] = H[Get(m)] => Get(m) <= k

\* Track counts 1 and 2 tie at the greatest frequency: the mode is 1.
C11_Witness ==
    /\ ReturnedStats
    /\ DOMAIN TheStats.histogram = { 1, 2 }
    /\ TheStats.histogram[1] = TheStats.histogram[2]
    /\ TheStats.mode_track_count = Some(1)

\* What the claim says of a release: it is determinate when it has media,
\* at least one, and each has a track count or a track list; its total adds
\* the track count of each medium, or else the length of its track list.
Determinate(rel) ==
    /\ ~IsNone(rel.media) /\ Len(Get(rel.media)) > 0
    /\ \A i \in 1..Len(Get(rel.media)) :
          ~IsNone(Get(rel.media)[i].track_count) \/ ~IsNone(Get(rel.media)[i].tracks)
MediumTracks(m) == IF ~IsNone(m.track_count) THEN Get(m.track_count) ELSE Get(m.tracks)
RECURSIVE TotalOf(_)
TotalOf(media) ==
    IF media = << >> THEN 0
    ELSE TotalOf(SubSeq(media, 1, Len(media) - 1)) + MediumTracks(media[Len(media)])

\* C12: fetched from a page of a one-track release followed by a release x,
\* the stats count two releases; when x is indeterminate (media missing or
\* empty, or a medium with neither a count nor a list) the histogram is that
\* of the first release alone, and otherwise x adds one to the frequency of
\* one key, its total, and to no other.
C12_ReleaseTotal ==
    ( /\ ReturnedStats /\ catalog \in ReleaseCatalogs /\ rgid = Items[1]
      /\ result[2] # "cached" ) =>
        LET x == catalog[rgid][1].releases[2]
            H == TheStats.histogram
        IN /\ TheStats.release_count = 2
           /\ IF ~Determinate(x) THEN H = (1 :> 1)
              ELSE LET t == TotalOf(Get(x.media))
                   IN IF t = 1 THEN H = (1 :> 2) ELSE H = (1 :> 1) @@ (t :> 1)

\* A release of a medium of 2 tracks and a medium with a list of 1 track
\* counted under 3.
C12_Witness ==
    /\ ReturnedStats /\ catalog \in ReleaseCatalogs /\ rgid = Items[1]
    /\ catalog[rgid][1].releases[2]
         = Release(Some(<< Medium(Some(2), None), Medium(None, Some(1)) >>))
    /\ TheStats.histogram = (1 :> 1) @@ (3 :> 1)
    /\ TheStats.release_count = 2

\* The sum of the frequencies of a histogram.
RECURSIVE SumOver(_, _)
SumOver(H, keys) ==
    IF keys = {} THEN 0
    ELSE LET k == CHOOSE x \in keys : TRUE IN H[k] + SumOver(H, keys \ { k })
StatsInvariant(stats) ==
    /\ SumOver(stats.histogram, DOMAIN stats.histogram) <= stats.release_count
    /\ ~IsNone(stats.mode_track_count) => Get(stats.mode_track_count) \in DOMAIN stats.histogram
    /\ IsNone(stats.mode_track_count) <=> DOMAIN stats.histogram = {}

\* C13: in the stats fetch_rg_stats returns and main stores, and in the
\* stats read from every row of rg_cache, the frequencies of the histogram sum to at
\* most release_count, and mode_track_count is a key of the histogram when
\* present and absent exactly when the histogram is empty.
C13_StatsInvariant ==
    /\ ReturnedStats => StatsInvariant(TheStats)
    /\ \A row \in rg_cache : StatsInvariant(StatsOfRow(row.rgid, row))
    /\ \A g \in DOMAIN mb_stats : ~IsNone(mb_stats[g]) => StatsInvariant(Get(mb_stats[g]))

\* Stats of four releases: one indeterminate, one of 1 track, two of 2
\* tracks; their row is in rg_cache.
C13_Witness ==
    /\ ReturnedStats /\ RowOf(TheStats) \in rg_cache
    /\ TheStats.release_count = 4
    /\ TheStats.histogram = (1 :> 1) @@ (2 :> 2)
    /\ TheStats.mode_track_count = Some(2)

\* C14: _last_mb_request is set to the time at which a request attempt ends,
\* whether the attempt got a response or raised, and no other step of a run
\* changes it.
C14_LastRequestUpdated ==
    [][ /\ (pc = "mb_send" /\ pc' # "mb_send") => last_mb_request' = now'
        /\ (pc \notin { "mb_send", "done", "crashed" }) =>
              last_mb_request' = last_mb_request ]_vars

\* min(30, 2^k) seconds, in ticks.
ExpBackoff(k) == (IF 2 ^ k < 30 THEN 2 ^ k ELSE 30) * TicksPerSecond
WithJitter(base) == { base + j : j \in Jitters }
RetryAfterNumber(ra) == ra.kind = "delay"

\* C15 as stated: after a retryable status with attempts remaining, the
\* sleep is the Retry-After value when the header is a number of seconds,
\* and in every other case min(30, 2^attempt) seconds plus jitter.
C15_RetrySleepAsStated ==
    (~IsNone(h_slept) /\ Get(h_slept).after = "status") =>
        IF RetryAfterNumber(Get(h_slept).retry_after)
        THEN Get(h_slept).slept = Get(h_slept).retry_after.secs * TicksPerSecond
        ELSE Get(h_slept).slept \in WithJitter(ExpBackoff(Get(h_slept).attempt))

\* C15, amended: after a retryable status with attempts remaining, the sleep
\* is the Retry-After value when the header is a number of seconds, 1.0
\* second when the header is there but is not a number, and min(30,
\* 2^attempt) seconds plus jitter when there is no header.
C15_RetrySleep ==
    (~IsNone(h_slept) /\ Get(h_slept).after = "status") =>
        /\ h_last \in { 429, 500, 502, 503, 504 }
        /\ Get(h_slept).attempt < max_retries
        /\ IF RetryAfterNumber(Get(h_slept).retry_after)
           THEN Get(h_slept).slept = Get(h_slept).retry_after.secs * TicksPerSecond
           ELSE IF Get(h_slept).retry_after.kind = "absent"
           THEN Get(h_slept).slept \in WithJitter(ExpBackoff(Get(h_slept).attempt))
           ELSE Get(h_slept).slept = 1 * TicksPerSecond

\* The sleep after a 503 of attempt 2 whose Retry-After is a date: 1 second.
C15_Witness ==
    /\ ~IsNone(h_slept) /\ Get(h_slept).after = "status"
    /\ Get(h_slept).retry_after.kind = "date" /\ Get(h_slept).attempt = 2
    /\ Get(h_slept).slept = 1 * TicksPerSecond

\* C16: a sleep of exponential backoff (no Retry-After) happens after an
\* attempt k in 0..4 only, and is min(30, 2^k) seconds plus jitter; over
\* those attempts the backoff does not decrease and is at most 30 seconds;
\* a call has slept once less than it has attempted, so nothing is slept
\* after the attempt 5.
C16_Backoff ==
    /\ (~IsNone(h_slept) /\ Get(h_slept).retry_after.kind = "absent") =>
          /\ Get(h_slept).attempt \in 0..(max_retries - 1)
          /\ Get(h_slept).slept \in WithJitter(ExpBackoff(Get(h_slept).attempt))
          /\ Get(h_slept).slept - Backoff(Get(h_slept).attempt, 0) \in Jitters
    /\ \A k \in 0..(max_retries - 1) :
          /\ Backoff(k, 0) <= 30 * TicksPerSecond
          /\ k > 0 => Backoff(k - 1, 0) <= Backoff(k, 0)
    /\ h_sleeps <= max_retries
    /\ h_attempts >= 1 => h_sleeps \in { h_attempts - 1, h_attempts }
    /\ h_attempts = max_retries + 1 => (h_sleeps = max_retries /\ IsNone(h_slept))

\* The sleep after the attempt 4 that a network fault ended: 16 seconds.
C16_Witness ==
    /\ ~IsNone(h_slept) /\ Get(h_slept).after = "network"
    /\ Get(h_slept).attempt = max_retries - 1
    /\ Get(h_slept).slept = 16 * TicksPerSecond

\* C17: a call of _mb_get makes at most max_retries + 1 = 6 request
\* attempts; status retries and network retries advance the one counter
\* attempt, so the attempts made are attempt + 1 whatever the mix; a call is
\* not continued after a 2xx response; a network fault is raised by the call
\* when it ends the 6th attempt, and only then.
C17_BoundedAttempts ==
    /\ h_attempts <= max_retries + 1 /\ attempt <= max_retries
    /\ pc \in { "mb_status", "mb_except" } => (h_attempts = attempt + 1 /\ h_sleeps = attempt)
    /\ pc \in { "mb_throttle", "mb_send" } => (h_attempts = attempt /\ h_sleeps = attempt)
    /\ (h_mb = "running" /\ pc \in { "mb_throttle", "mb_send", "mb_except" } /\ h_attempts >= 1) =>
          h_last \notin 200..299
    /\ h_mb = "returned" => h_last \in 200..299
    /\ (pc = "mb_except" /\ attempt < max_retries) => h_mb = "running"
    /\ (h_mb = "raised" /\ h_last = 0 /\ ~IsNone(h_raised)
          /\ Get(h_raised)[1] \in RetriedExceptions) =>
          /\ h_attempts = max_retries + 1
          /\ pc = "returned" => result = << None, FailedStatus(Get(h_raised)[1]) >>

\* After a mix of retryable statuses and network faults, the network fault
\* that ended the 6th attempt was raised.
C17_Witness ==
    /\ pc = "returned" /\ h_mb = "raised" /\ h_attempts = max_retries + 1
    /\ h_kinds = { "status", "network" } /\ h_last = 0
    /\ result = << None, "failed (ReadTimeout)" >>

\* The release records on the first n pages of a release group.
RECURSIVE ReleasesOn(_, _)
ReleasesOn(pages, n) ==
    IF n = 0 THEN 0 ELSE ReleasesOn(pages, n - 1) + Len(pages[n].releases)

\* C18: the pages of a release group are requested at the offsets 0, 100,
\* 200, ... in this order, the offset growing by limit = 100 with each page;
\* the fetch stops after the first page whose release-count is missing or at
\* most the offset after it, and not before; so a service that reports
\* the total T on every page is asked for max(1, ceil(T / 100)) pages; and
\* release_count is the number of release records on the pages received.
C18_Pagination ==
    /\ pc \in { "mb_call", "mb_throttle", "mb_send", "mb_status" } => offset = h_pages * limit
    /\ (ReturnedStats /\ result[2] # "cached") =>
          LET pages == catalog[rgid]
              n == h_pages
          IN /\ n >= 1 /\ n <= Len(pages)
             /\ h_requests = n
             /\ IsNone(pages[n].total) \/ n * limit >= Get(pages[n].total)
             /\ \A i \in 1..(n - 1) :
                   ~IsNone(pages[i].total) /\ i * limit < Get(pages[i].total)
             /\ TheStats.release_count = ReleasesOn(pages, n)
             /\ \A T \in Totals :
                   pages = PagesFor(T) =>
                     \/ T = 0 /\ n = 1
                     \/ T > 0 /\ (n - 1) * limit < T /\ T <= n * limit

\* A total of 201 was fetched in three pages, of 1, 2 and 3 releases.
C18_Witness ==
    /\ ReturnedStats /\ result[2] # "cached"
    /\ catalog[rgid] = PagesFor(2 * limit + 1)
    /\ h_pages = 3 /\ h_requests = 3
    /\ TheStats.release_count = 6

\* The release groups that have a row in a table.
Cached(table) == { row.rgid : row \in table }

\* C19: rg_cache is as it was when the call of fetch_rg_stats began until
\* the call returns stats it fetched, every page of them without an
\* exception, and then differs in the row of rgid alone; a call that
\* returns no stats, having failed on its first page or a later one, or that
\* returns the cached stats, or that a cache fault ends, leaves rg_cache as
\* it was; and a release group that ever had a row has one.
C19_AllOrNothing ==
    /\ pc \in { "ensure", "read", "mb_call", "mb_throttle", "mb_send", "mb_status",
                "mb_except", "build", "crashed" } => rg_cache = h_cache0
    /\ (pc = "returned" /\ (IsNone(result[1]) \/ result[2] = "cached")) => rg_cache = h_cache0
    /\ (pc = "returned" /\ IsNone(result[1])) => result[2] \in FailedStatuses
    /\ (pc = "returned" /\ rg_cache # h_cache0) =>
          /\ ~IsNone(result[1]) /\ IsNone(h_raised) /\ h_pages >= 1
          /\ result[2] \in { "fetched (not in cache)", "fetched (forced)",
                              "fetched (cache expired)" }
          /\ rg_cache = { row \in h_cache0 : row.rgid # rgid } \cup { RowOf(TheStats) }
    /\ Cached(h_cache0) \subseteq Cached(rg_cache)
    /\ DOMAIN h_fetched = Cached(rg_cache)

\* The second page failed after the first was counted, with a row cached
\* for rgid and another: no stats are returned and both rows are as before.
C19_Witness ==
    /\ pc = "returned" /\ IsNone(result[1]) /\ h_pages = 1
    /\ ~IsNone(h_raised) /\ Get(h_raised)[2] = "mb_get"
    /\ ~IsNone(h_row) /\ Get(h_row) \in rg_cache
    /\ Cardinality(rg_cache) = Len(Items) /\ rg_cache = h_cache0

\* C20: in the stats a fetch produces, every key of the histogram is a
\* positive track count and every frequency is positive, whatever releases
\* the service returns.
C20_PositiveHistogram ==
    (ReturnedStats /\ result[2] # "cached") =>
        \A k \in DOMAIN TheStats.histogram : k > 0 /\ TheStats.histogram[k] > 0

\* The stored entry of a release group, if it has one.
StoredEntry(table, g) ==
    IF IsNone(SelectRow(table, g)) THEN None
    ELSE Some(StatsOfRow(g, Get(SelectRow(table, g))))

\* C24: _read_cache is an exact-key lookup without freshness filtering:
\* whatever the cache holds, whatever the time and whatever max_age_days is
\* (0 included), it returns the stored entry of rgid when there is one, and
\* nothing when there is none.
C24_ExactKeyLookup ==
    \A g \in RGIDs : \A d \in MaxAgeChoices :
        read_cache(rg_cache, g, d, now) = StoredEntry(rg_cache, g)

\* The statuses of a fetch that succeeded.
FetchedStatuses ==
    { "fetched (forced)", "fetched (cache expired)", "fetched (not in cache)" }

\* C22: when fetch_rg_stats returns, its status is "cached", one of the three
\* "fetched (...)" or a "failed (...)"; it is "cached" exactly when the call
\* made no request attempt and left rg_cache as it was; the stats are absent
\* exactly when the status is a "failed (...)"; and the status is
\* "fetched (not in cache)" exactly when stats were fetched and rg_cache
\* had no row for rgid when the call began, max_age_days = 0 included.
C22_Status ==
    pc = "returned" =>
        /\ result[2] \in { "cached" } \cup FetchedStatuses \cup FailedStatuses
        /\ (result[2] = "cached") <=> (h_requests = 0 /\ rg_cache = h_cache0)
        /\ IsNone(result[1]) <=> (result[2] \in FailedStatuses)
        /\ (result[2] = "fetched (not in cache)") <=>
               (/\ ~IsNone(result[1]) /\ h_requests > 0
                /\ rgid \notin Cached(h_cache0))
        /\ (result[2] \in FetchedStatuses) => RowOf(TheStats) \in rg_cache

\* Under max_age_days = 0 a release group without a row was fetched and
\* stored: the status is "fetched (not in cache)", not "fetched (forced)".
C22_Witness ==
    /\ pc = "returned" /\ max_age_days = 0
    /\ result[2] = "fetched (not in cache)"
    /\ rgid \notin Cached(h_cache0) /\ rgid \in Cached(rg_cache)
    /\ h_requests > 0

\* C23: between a retried attempt of _mb_get (a retryable response, or a
\* network fault it catches) and the next attempt lie both waits, one after
\* the other: the retry sleep, begun when the attempt was over, and then
\* the throttle wait measured when the sleep is over; so the next request
\* starts MB_MIN_INTERVAL or more after _last_mb_request, and after a
\* retried response that is MB_MIN_INTERVAL or more after the response
\* was complete, even when the sleep was a Retry-After of 0 seconds.
C23_BothWaits ==
    (pc \in { "mb_throttle", "mb_send" } /\ ~IsNone(h_slept)) =>
        LET s == Get(h_slept)
            woke == s.since + s.slept
        IN /\ pc = "mb_throttle" => now = woke
           /\ pc = "mb_send" =>
                 /\ now = IF woke >= last_mb_request + MB_MIN_INTERVAL THEN woke
                          ELSE last_mb_request + MB_MIN_INTERVAL
                 /\ now - last_mb_request >= MB_MIN_INTERVAL
                 /\ s.after = "status" =>
                        /\ s.since = last_mb_request
                        /\ now - s.since >= MB_MIN_INTERVAL

\* A retryable response with Retry-After: 0 was slept on for no time, and
\* the throttle made up the whole second before the next request.
C23_Witness ==
    /\ pc = "mb_send" /\ ~IsNone(h_slept)
    /\ Get(h_slept).after = "status"
    /\ Get(h_slept).retry_after = [ kind |-> "delay", secs |-> 0 ]
    /\ Get(h_slept).slept = 0
    /\ now = Get(h_slept).since + MB_MIN_INTERVAL

\* C21: the run works on the release groups one at a time, in the order of
\* Items: the groups it has read the cache, made a request or written the
\* cache for are an initial part of Items, taken up in that order and none
\* returned to; when the call for a group begins, fetch_rg_stats has
\* returned for every group worked on before, and main has printed its
\* status (cached, fetched or failed) and stored its stats; and while the
\* call for a group is past its cache read, that group is the latest
\* worked on.
C21_OneAtATime ==
    /\ Len(printed) = idx - 1
    /\ \A k \in 1..Len(printed) :
          /\ printed[k][1] = Items[k]
          /\ printed[k][2] \in { "cached" } \cup FetchedStatuses \cup FailedStatuses
          /\ Items[k] \in DOMAIN mb_stats
    /\ \E n \in 0..Len(Items) : h_work = SubSeq(Items, 1, n)
    /\ pc \in { "main", "ensure", "read", "done" } => Len(h_work) = Len(printed)
    /\ pc \in { "mb_call", "mb_throttle", "mb_send", "mb_status", "mb_except",
                "build", "returned" } =>
          /\ Len(h_work) = Len(printed) + 1
          /\ h_work[Len(h_work)] = Items[idx]
    /\ pc = "crashed" => Len(h_work) \in { Len(printed), Len(printed) + 1 }

\* The fetch for the first release group failed and was reported; the
\* fetch for the second then ran and returned its stats.
C21_Witness ==
    /\ pc = "returned" /\ idx = 2
    /\ h_work = Items
    /\ printed[1][1] = Items[1] /\ printed[1][2] \in FailedStatuses
    /\ result[2] \in FetchedStatuses /\ h_requests > 0

====
